---- MODULE Spec2Model ----
(***************************************************************************)
(* SPEAD decoding of casperfpga (src/src/spead.py): the magic word         *)
(* decoder, the item pointer decoder, SpeadPacket.from_data and            *)
(* SpeadProcessor.process_data.                                            *)
(*                                                                         *)
(* A 64-bit word is a sequence of 8 bytes, most significant first; every   *)
(* shift and mask of the source is a multiple of 8 bits, so the byte       *)
(* sequence carries the full width.  A Python integer that may exceed      *)
(* 31 bits (header id, header value) is the byte sequence without leading  *)
(* zero bytes, so equality of integers is equality of sequences.  Python's *)
(* None is the empty sequence, a supplied optional v is <<v>>.  A string   *)
(* is a sequence of one-character strings.                                 *)
(***************************************************************************)
EXTENDS Integers, Sequences, FiniteSets, TLC

VARIABLES op, args, result,
          packets, version, flavour, expected_num_headers, expected_packet_length

vars == <<op, args, result,
          packets, version, flavour, expected_num_headers, expected_packet_length>>

procvars == <<packets, version, flavour, expected_num_headers, expected_packet_length>>

\* ------------------------------------------------------------------ bounds
MaxHeaders == 2
MaxPayload == 3
MaxFind == 2
MaxBatch == 2
MaxPackets == 3

\* ------------------------------------------------------------ Python values
None == <<>>
Some(v) == <<v>>

Ok(v) == [kind |-> "ok", value |-> v]
Err(e) == [kind |-> "error", err |-> e]
NoResult == [kind |-> "pending"]

Digits == <<"0", "1", "2", "3", "4", "5", "6", "7", "8", "9">>

\* '%s' % n for a non-negative integer n
RECURSIVE FormatInt(_)
FormatInt(n) ==
    IF n < 10 THEN <<Digits[n + 1]>>
    ELSE FormatInt(n \div 10) \o <<Digits[(n % 10) + 1]>>

\* the integer denoted by a byte sequence: leading zero bytes dropped
RECURSIVE Norm(_)
Norm(bytes) ==
    IF bytes = <<>> THEN <<>>
    ELSE IF Head(bytes) = 0 THEN Norm(Tail(bytes))
    ELSE bytes

\* a small non-negative integer as a Python integer
RECURSIVE BigOf(_)
BigOf(n) ==
    IF n = 0 THEN <<>>
    ELSE BigOf(n \div 256) \o <<n % 256>>

MinusOne == <<-1>>

\* word64 >> (8 * nbytes)
ShiftRight(word64, nbytes) ==
    IF nbytes >= Len(word64) THEN <<>>
    ELSE SubSeq(word64, 1, Len(word64) - nbytes)

\* word64 & (2^(8 * nbytes) - 1)
LowBytes(word64, nbytes) ==
    IF nbytes >= Len(word64) THEN word64
    ELSE SubSeq(word64, Len(word64) - nbytes + 1, Len(word64))

\* ------------------------------------------------- decode_spead_magic_word
MagicFlavour(spead_id_width, spead_addr_width) ==
    FormatInt((spead_addr_width * 8) + (spead_id_width * 8))
        \o <<",">> \o FormatInt(spead_addr_width * 8)

MagicFieldsMutant(word64) ==
    [magic_number     |-> word64[1],
     spead_version    |-> word64[2],
     spead_id_width   |-> word64[4],
     spead_addr_width |-> word64[3],
     reserved         |-> (word64[5] * 256) + word64[6],
     num_headers      |-> (word64[7] * 256) + word64[8]]

MagicFields(word64) ==
    [magic_number     |-> word64[1],
     spead_version    |-> word64[2],
     spead_id_width   |-> word64[3],
     spead_addr_width |-> word64[4],
     reserved         |-> (word64[5] * 256) + word64[6],
     num_headers      |-> (word64[7] * 256) + word64[8]]

MagicChecksMutant(f, spead_flavour, required_version, required_flavour, required_numheaders) ==
    IF f.magic_number # 83 THEN "MagicMismatch"
    ELSE IF required_version # None /\ f.spead_version # required_version[1]
        THEN "VersionMismatch"
    ELSE IF f.reserved # 0 THEN "ReservedFieldNonzero"
    ELSE IF required_flavour # None /\ spead_flavour # required_flavour[1]
        THEN "FlavourMismatch"
    ELSE IF required_numheaders # None /\ f.num_headers # required_numheaders[1]
        THEN "HeaderCountMismatch"
    ELSE "pass"

MagicChecks(f, spead_flavour, required_version, required_flavour, required_numheaders) ==
    IF f.magic_number # 83 THEN "MagicMismatch"
    ELSE IF f.reserved # 0 THEN "ReservedFieldNonzero"
    ELSE IF required_version # None /\ f.spead_version # required_version[1]
        THEN "VersionMismatch"
    ELSE IF required_flavour # None /\ spead_flavour # required_flavour[1]
        THEN "FlavourMismatch"
    ELSE IF required_numheaders # None /\ f.num_headers # required_numheaders[1]
        THEN "HeaderCountMismatch"
    ELSE "pass"

decode_spead_magic_word(word64, required_version, required_flavour, required_numheaders) ==
    LET f == MagicFields(word64)
        spead_flavour == MagicFlavour(f.spead_id_width, f.spead_addr_width)
        check == MagicChecks(f, spead_flavour, required_version, required_flavour,
                             required_numheaders)
    IN  IF check # "pass" THEN Err(check)
        ELSE Ok([magic_number |-> f.magic_number,
                 version      |-> f.spead_version,
                 id_bits      |-> f.spead_id_width * 8,
                 address_bits |-> f.spead_addr_width * 8,
                 reserved     |-> f.reserved,
                 num_headers  |-> f.num_headers,
                 flavour      |-> spead_flavour])

\* ------------------------------------------------------- input: magic words
MagicWord(magic, ver, idw, addrw, res, nh) ==
    <<magic, ver, idw, addrw, res \div 256, res % 256, nh \div 256, nh % 256>>

Flavour6448 == <<"6", "4", ",", "4", "8">>

MagicNumbers == {83, 0, 84}
Versions == {4, 3}
IdWidths == {0, 1, 2, 8}
AddrWidths == {5, 6, 9}
Reserveds == {0, 1, 256}

AllMagicWords ==
    {MagicWord(m, v, i, a, r, n) :
        m \in MagicNumbers, v \in Versions, i \in IdWidths, a \in AddrWidths,
        r \in Reserveds, n \in 0..MaxHeaders}

OptVersion == {None, Some(4)}
OptFlavour == {None, Some(Flavour6448)}
OptHdrs == {None, Some(1)}

\* ------------------------------------------------------ SpecMagic
ProcIdle ==
    /\ packets = <<>>
    /\ version = Some(4)
    /\ flavour = Some(Flavour6448)
    /\ expected_num_headers = None
    /\ expected_packet_length = None

InitMagic ==
    /\ op = "none"
    /\ result = NoResult
    /\ args \in [word64 : AllMagicWords, required_version : OptVersion,
                 required_flavour : OptFlavour, required_numheaders : OptHdrs]
    /\ ProcIdle

DecodeMagicCall ==
    /\ op = "none"
    /\ op' = "decode_spead_magic_word"
    /\ result' = decode_spead_magic_word(args.word64, args.required_version,
                                         args.required_flavour, args.required_numheaders)
    /\ UNCHANGED <<args, procvars>>

NextMagic == DecodeMagicCall

SpecMagic == InitMagic /\ [][NextMagic]_vars

\* ----------------------------------------------------- decode_item_pointer
\* id_bits and address_bits are multiples of 8 in every call of the source
\* hdr_id after "if hdr_id & pow(2, id_bits - 1): hdr_id &= pow(2, id_bits - 1) - 1"
ItemId(raw, id_bytes) ==
    IF id_bytes <= Len(raw) /\ raw[Len(raw) - id_bytes + 1] >= 128
    THEN LET low == SubSeq(raw, Len(raw) - id_bytes + 1, Len(raw))
         IN  Norm(<<low[1] % 128>> \o Tail(low))
    ELSE Norm(raw)

decode_item_pointer(header64, id_bits, address_bits) ==
    LET raw == ShiftRight(header64, address_bits \div 8)
    IN  IF id_bits = 0
        THEN Err("TypeError")     \* pow(2, -1) is the float 0.5; int & float raises
        ELSE Ok([hdr_id   |-> ItemId(raw, id_bits \div 8),
                 hdr_data |-> Norm(LowBytes(header64, address_bits \div 8))])

\* ---------------------------------------------------- SpeadPacket.from_data
HeaderKeys(headers) == {headers[k].id : k \in 1..Len(headers)}

Id0000 == <<>>
Id0004 == <<4>>

\* one pass of the loop "for ctr in range(1, num_headers + 1)", from ctr on
RECURSIVE HeaderLoopMutant(_, _, _, _, _)
HeaderLoopMutant(data, main_header, ctr, headers, packet_length) ==
    IF ctr > main_header.num_headers
    THEN Ok([headers |-> headers, packet_length |-> packet_length])
    ELSE IF ctr + 1 > Len(data) THEN Err("IndexError")
    ELSE LET d == decode_item_pointer(data[ctr + 1], main_header.id_bits,
                                      main_header.address_bits)
         IN  IF d.kind = "error" THEN d
             ELSE HeaderLoopMutant(data, main_header, ctr + 1,
                      Append(headers, [id |-> d.value.hdr_id, val |-> d.value.hdr_data]),
                      IF d.value.hdr_id = Id0004 THEN d.value.hdr_data
                      ELSE packet_length)

RECURSIVE HeaderLoop(_, _, _, _, _)
HeaderLoop(data, main_header, ctr, headers, packet_length) ==
    IF ctr > main_header.num_headers
    THEN Ok([headers |-> headers, packet_length |-> packet_length])
    ELSE IF ctr + 1 > Len(data) THEN Err("IndexError")
    ELSE LET d == decode_item_pointer(data[ctr + 1], main_header.id_bits,
                                      main_header.address_bits)
         IN  IF d.kind = "error" THEN d
             ELSE IF d.value.hdr_id \in HeaderKeys(headers)
             THEN Err("DuplicateHeaderId")
             ELSE HeaderLoop(data, main_header, ctr + 1,
                      Append(headers, [id |-> d.value.hdr_id, val |-> d.value.hdr_data]),
                      IF d.value.hdr_id = Id0004 THEN d.value.hdr_data
                      ELSE packet_length)

\* "if expected_hdrs is not None: if len(headers) != expected_hdrs + 1"
HeaderCountCheck(headers, expected_hdrs) ==
    IF expected_hdrs # None /\ Cardinality(HeaderKeys(headers)) # expected_hdrs[1] + 1
    THEN "HeaderCountMismatch"
    ELSE "pass"

\* "for ctr in range(num_headers + 1, len(data)): pktdata.append(data[ctr])"
PacketDataMutant(data, num_headers) == SubSeq(data, num_headers + 1, Len(data))

PacketData(data, num_headers) == SubSeq(data, num_headers + 2, Len(data))

LengthChecksMutant(pktlen, expected_length, packet_length) ==
    IF expected_length = None THEN "TypeError"
    ELSE IF pktlen # expected_length[1] THEN "PayloadLengthMismatch"
    ELSE "pass"

\* "if pktlen != expected_length" and "if pktlen*8 != packet_length".  With
\* expected_length None the first comparison is always true, and building the
\* message '%i != %i' % (pktlen, None) raises TypeError.
LengthChecks(pktlen, expected_length, packet_length) ==
    IF expected_length = None THEN "TypeError"
    ELSE IF pktlen # expected_length[1] THEN "PayloadLengthMismatch"
    ELSE IF BigOf(pktlen * 8) # packet_length THEN "LengthFieldMismatch"
    ELSE "pass"

from_data(data, expected_version, expected_flavour, expected_hdrs, expected_length) ==
    IF Len(data) = 0 THEN Err("IndexError")
    ELSE
    LET m == decode_spead_magic_word(data[1], expected_version, expected_flavour,
                                     expected_hdrs)
    IN  IF m.kind = "error" THEN m
        ELSE
        LET main_header == m.value
            h == HeaderLoop(data, main_header, 1,
                            <<[id |-> Id0000, val |-> main_header]>>, MinusOne)
        IN  IF h.kind = "error" THEN h
            ELSE
            LET headers == h.value.headers
                count == HeaderCountCheck(headers, expected_hdrs)
                pktdata == PacketData(data, main_header.num_headers)
                lens == LengthChecks(Len(pktdata), expected_length, h.value.packet_length)
            IN  IF count # "pass" THEN Err(count)
                ELSE IF lens # "pass" THEN Err(lens)
                ELSE Ok([headers |-> headers, data |-> pktdata])

\* ------------------------------------------------- input: word sequences
H4v8 == <<0, 4, 0, 0, 0, 0, 0, 8>>
H4v16 == <<0, 4, 0, 0, 0, 0, 0, 16>>
H4imm == <<128, 4, 0, 0, 0, 0, 0, 8>>
H5v1 == <<0, 5, 0, 0, 0, 0, 0, 1>>
ZeroWord == <<0, 0, 0, 0, 0, 0, 0, 0>>
PayA == <<222, 173, 190, 239, 0, 0, 0, 1>>

HeaderWords == {H4v8, H4v16, H4imm, H5v1, ZeroWord}
SeqsUpTo(S, n) == UNION {[1..k -> S] : k \in 0..n}

\* (magic number, version, id width, address width, reserved)
MagicShapes ==
    {<<83, 4, 2, 6, 0>>, <<0, 4, 2, 6, 0>>, <<83, 3, 2, 6, 0>>, <<83, 4, 8, 6, 0>>,
     <<83, 4, 0, 6, 0>>, <<83, 4, 1, 7, 0>>, <<83, 4, 2, 6, 1>>}

PacketMagicWords ==
    {MagicWord(s[1], s[2], s[3], s[4], s[5], n) : s \in MagicShapes, n \in 0..MaxHeaders}

\* payloads of up to MaxPayload words, alternating the two payload words
PayloadSeqs ==
    {[i \in 1..k |-> IF (i + s) % 2 = 0 THEN PayA ELSE H4v8] :
        k \in 0..MaxPayload, s \in {0, 1}}

DataSeqs ==
    {<<>>} \cup
    {<<m>> \o hs \o ps : m \in PacketMagicWords, hs \in SeqsUpTo(HeaderWords, MaxHeaders),
                         ps \in PayloadSeqs}

OptLength == {None, Some(1), Some(2)}

\* ------------------------------------------------------ SpecPacket
InitPacket ==
    /\ op = "none"
    /\ result = NoResult
    /\ args \in [data : DataSeqs, expected_version : OptVersion,
                 expected_flavour : OptFlavour, expected_hdrs : OptHdrs,
                 expected_length : OptLength]
    /\ ProcIdle

FromDataCall ==
    /\ op = "none"
    /\ op' = "from_data"
    /\ result' = from_data(args.data, args.expected_version, args.expected_flavour,
                           args.expected_hdrs, args.expected_length)
    /\ UNCHANGED <<args, procvars>>

NextPacket == FromDataCall

SpecPacket == InitPacket /\ [][NextPacket]_vars

\* ------------------------------------------------------- find_spead_header
NotFound == [kind |-> "none"]

\* "for __ctr, dataword in enumerate(data64)", from the word at position pos on
RECURSIVE find_spead_header_from(_, _, _, _)
find_spead_header_from(data64, pos, expected_version, expected_flavour) ==
    IF pos > Len(data64) THEN NotFound
    ELSE LET decoded == decode_spead_magic_word(data64[pos], None, None, None)
         IN  IF decoded.kind = "error" THEN decoded
             ELSE IF decoded.value.version = expected_version
                     /\ decoded.value.flavour = expected_flavour
             THEN Ok([index |-> pos - 1, decoded |-> decoded.value])
             ELSE find_spead_header_from(data64, pos + 1, expected_version,
                                         expected_flavour)

find_spead_header(data64, expected_version, expected_flavour) ==
    find_spead_header_from(data64, 1, expected_version, expected_flavour)

Flavour11248 == <<"1", "1", "2", ",", "4", "8">>

FindWords ==
    {MagicWord(83, 4, 2, 6, 0, 1), MagicWord(83, 3, 2, 6, 0, 1), MagicWord(83, 4, 8, 6, 0, 0),
     MagicWord(83, 4, 2, 6, 1, 1), H4v8, PayA, ZeroWord}

\* ------------------------------------------------------ SpecFind
InitFind ==
    /\ op = "none"
    /\ result = NoResult
    /\ args \in [data64 : SeqsUpTo(FindWords, MaxFind), expected_version : Versions,
                 expected_flavour : {Flavour6448, Flavour11248}]
    /\ ProcIdle

FindHeaderCall ==
    /\ op = "none"
    /\ op' = "find_spead_header"
    /\ result' = find_spead_header(args.data64, args.expected_version,
                                   args.expected_flavour)
    /\ UNCHANGED <<args, procvars>>

NextFind == FindHeaderCall

SpecFind == InitFind /\ [][NextFind]_vars

\* ------------------------------------------------------------ SpeadProcessor
\* "for pkt in data_packets", from the sequence at position pos on; a raised
\* error leaves the loop with the packets appended so far
RECURSIVE ProcessLoopMutant(_, _, _, _, _, _, _)
ProcessLoopMutant(pkts, data_packets, pos, ver, flav, num_headers, packet_length) ==
    IF pos > Len(data_packets) THEN [packets |-> pkts, outcome |-> Ok(None)]
    ELSE LET spead_pkt == from_data(data_packets[pos], ver, flav, num_headers,
                                    packet_length)
         IN  ProcessLoopMutant(IF spead_pkt.kind = "error" THEN pkts
                               ELSE Append(pkts, spead_pkt.value),
                               data_packets, pos + 1, ver, flav, num_headers,
                               packet_length)

RECURSIVE ProcessLoop(_, _, _, _, _, _, _)
ProcessLoop(pkts, data_packets, pos, ver, flav, num_headers, packet_length) ==
    IF pos > Len(data_packets) THEN [packets |-> pkts, outcome |-> Ok(None)]
    ELSE LET spead_pkt == from_data(data_packets[pos], ver, flav, num_headers,
                                    packet_length)
         IN  IF spead_pkt.kind = "error"
             THEN [packets |-> pkts, outcome |-> spead_pkt]
             ELSE ProcessLoop(Append(pkts, spead_pkt.value), data_packets, pos + 1,
                              ver, flav, num_headers, packet_length)

GoodA == <<MagicWord(83, 4, 2, 6, 0, 1), H4v8, PayA>>
GoodB == <<MagicWord(83, 4, 2, 6, 0, 1), H4imm, H4v8>>
GoodC == <<MagicWord(83, 4, 2, 6, 0, 2), H4v8, H5v1, PayA>>
LongD == <<MagicWord(83, 4, 2, 6, 0, 1), H4v16, PayA, PayA>>

BatchPool == {GoodA, GoodB, GoodC, LongD}

\* SpeadProcessor.__init__
Init ==
    /\ op = "none"
    /\ args = [data_packets |-> <<>>]
    /\ result = NoResult
    /\ packets = <<>>
    /\ version \in {Some(4), Some(3)}
    /\ flavour = Some(Flavour6448)
    /\ expected_num_headers \in OptHdrs
    /\ expected_packet_length \in {None, Some(1)}

\* SpeadProcessor.process_data; the first conjunct caps the length of the list
ProcessData ==
    \E data_packets \in SeqsUpTo(BatchPool, MaxBatch) :
        /\ Len(packets) + Len(data_packets) <= MaxPackets
        /\ LET out == ProcessLoop(packets, data_packets, 1, version, flavour,
                                  expected_num_headers, expected_packet_length)
           IN  /\ packets' = out.packets
               /\ result' = out.outcome
        /\ op' = "process_data"
        /\ args' = [data_packets |-> data_packets]
        /\ UNCHANGED <<version, flavour, expected_num_headers, expected_packet_length>>

Next == ProcessData

Spec == Init /\ [][Next]_vars

\* the decimal digits of a string, read back as an integer
DigitVal(c) == CHOOSE d \in 0..9 : Digits[d + 1] = c

IsDigit(c) == \E d \in 0..9 : Digits[d + 1] = c

RECURSIVE ParseInt(_)
ParseInt(s) ==
    IF s = <<>> THEN 0
    ELSE (ParseInt(SubSeq(s, 1, Len(s) - 1)) * 10) + DigitVal(s[Len(s)])

IsDecimalOf(s, n) ==
    /\ Len(s) >= 1
    /\ \A k \in 1..Len(s) : IsDigit(s[k])
    /\ (Len(s) > 1 => s[1] # "0")
    /\ ParseInt(s) = n

IsFlavourOf(s, total, addr) ==
    \E k \in 1..Len(s) :
        /\ s[k] = ","
        /\ IsDecimalOf(SubSeq(s, 1, k - 1), total)
        /\ IsDecimalOf(SubSeq(s, k + 1, Len(s)), addr)

NoExpectations ==
    /\ args.required_version = None
    /\ args.required_flavour = None
    /\ args.required_numheaders = None

WellFormedMagic(w) == w[1] = 83 /\ w[5] = 0 /\ w[6] = 0

\* C6: a word with top byte 83 and reserved bits 16..31 zero, decoded without
\* expectations, yields version = bits 48..55, id_bits = 8 * bits 40..47,
\* address_bits = 8 * bits 32..39, num_headers = bits 0..15, magic_number 83,
\* reserved 0, and a flavour string reading "<id_bits+address_bits>,<address_bits>".
C6_MagicDecodeExact ==
    (op = "decode_spead_magic_word" /\ NoExpectations /\ WellFormedMagic(args.word64)) =>
        /\ result.kind = "ok"
        /\ result.value.version = args.word64[2]
        /\ result.value.id_bits = 8 * args.word64[3]
        /\ result.value.address_bits = 8 * args.word64[4]
        /\ result.value.num_headers = (256 * args.word64[7]) + args.word64[8]
        /\ result.value.magic_number = 83
        /\ result.value.reserved = 0
        /\ IsFlavourOf(result.value.flavour,
                       (8 * args.word64[3]) + (8 * args.word64[4]), 8 * args.word64[4])

C6_Witness ==
    /\ op = "decode_spead_magic_word"
    /\ NoExpectations
    /\ args.word64 = MagicWord(83, 4, 2, 6, 0, 1)
    /\ result.kind = "ok"
    /\ result.value.flavour = Flavour6448

ReservedOf(w) == (256 * w[5]) + w[6]

\* C7 as stated: a magic word with nonzero reserved bits fails with
\* ReservedFieldNonzero whatever the other fields and the expectations are.
C7_ReservedAlways ==
    (op = "decode_spead_magic_word" /\ ReservedOf(args.word64) # 0) =>
        (result.kind = "error" /\ result.err = "ReservedFieldNonzero")

\* C7 amended: a word whose top byte is 83 and whose reserved bits are nonzero
\* fails with ReservedFieldNonzero, whatever the version, widths, header count
\* and expectations are.
C7_ReservedAfterMagic ==
    (op = "decode_spead_magic_word" /\ args.word64[1] = 83 /\ ReservedOf(args.word64) # 0) =>
        (result.kind = "error" /\ result.err = "ReservedFieldNonzero")

C7_Witness ==
    /\ op = "decode_spead_magic_word"
    /\ args.word64[1] = 83
    /\ ReservedOf(args.word64) # 0
    /\ args.word64[2] = 3
    /\ args.required_version = Some(4)
    /\ result.kind = "error"
    /\ result.err = "ReservedFieldNonzero"

\* ------------------------------------------------------ claims on from_data
NamedErrors ==
    {"MagicMismatch", "ReservedFieldNonzero", "VersionMismatch", "FlavourMismatch",
     "HeaderCountMismatch", "DuplicateHeaderId", "PayloadLengthMismatch",
     "LengthFieldMismatch"}

Failed(e) == result.kind = "error" /\ result.err = e

\* the value stored under header id hid of a packet, as a set (empty if absent)
HeaderValues(pkt, hid) ==
    {pkt.headers[k].val : k \in {j \in 2..Len(pkt.headers) : pkt.headers[j].id = hid}}

EndToEndResult(payload_word) ==
    /\ result.kind = "ok"
    /\ result.value.headers[1].id = Id0000
    /\ result.value.headers[1].val.flavour = Flavour6448
    /\ HeaderValues(result.value, Id0004) = {BigOf(8)}
    /\ result.value.data = <<payload_word>>

LengthShaped(L) ==
    /\ op = "from_data"
    /\ Len(args.data) >= 2
    /\ args.data[1] = MagicWord(83, 4, 2, 6, 0, 1)
    /\ args.data[2] = <<0, 4, 0, 0, 0, 0, 0, L>>

\* C2: a packet whose header 0x0004 declares L bytes and that has n payload
\* words assembles when 8*n = L and fails with LengthFieldMismatch when
\* 8*n # L (L = 16: 2 words assemble, 1 or 3 words fail), under the
\* expectations with which the matching packet is accepted: expected_length
\* omitted or equal to L/8.
C2_LengthField ==
    \A L \in {8, 16} :
        (LengthShaped(L) /\ args.expected_length \in {None, Some(L \div 8)}) =>
            IF 8 * (Len(args.data) - 2) = L
            THEN result.kind = "ok"
            ELSE Failed("LengthFieldMismatch")

\* the header words of the call, decoded with the widths of its magic word
MagicOf(a) ==
    decode_spead_magic_word(a.data[1], a.expected_version, a.expected_flavour,
                            a.expected_hdrs)

ItemOf(a, i) ==
    decode_item_pointer(a.data[i + 1], MagicOf(a).value.id_bits,
                        MagicOf(a).value.address_bits)

HasAllHeaderWords(a) ==
    /\ Len(a.data) >= 1
    /\ MagicOf(a).kind = "ok"
    /\ Len(a.data) >= MagicOf(a).value.num_headers + 1

TwoHeadersSameId(a) ==
    \E i, j \in 1..MagicOf(a).value.num_headers :
        /\ i < j
        /\ ItemOf(a, i).kind = "ok"
        /\ ItemOf(a, j).kind = "ok"
        /\ ItemOf(a, i).value.hdr_id = ItemOf(a, j).value.hdr_id

\* C3: when the magic word passes validation, all num_headers header words are
\* present and two of them decode to the same id, from_data fails with
\* DuplicateHeaderId; in every returned packet the header ids are pairwise distinct.
C3_DuplicateHeaderId ==
    op = "from_data" =>
        /\ (HasAllHeaderWords(args) /\ TwoHeadersSameId(args))
                => Failed("DuplicateHeaderId")
        /\ result.kind = "ok" =>
                \A i, j \in 1..Len(result.value.headers) :
                    i # j => result.value.headers[i].id # result.value.headers[j].id

C3_Witness ==
    /\ op = "from_data"
    /\ Len(args.data) = 4
    /\ args.data[1] = MagicWord(83, 4, 2, 6, 0, 2)
    /\ args.data[2] = H4v8
    /\ args.data[3] = H4imm
    /\ args.expected_length = Some(1)
    /\ Failed("DuplicateHeaderId")

\* C5: from_data returns a complete packet or fails with one of the eight named
\* structural errors, for every word sequence and all expectations.
C5_ClosedErrors ==
    op = "from_data" =>
        \/ result.kind = "ok"
        \/ result.kind = "error" /\ result.err \in NamedErrors

\* the call reaches the payload steps (lines 106 and on)
HeaderStepsPass(a) ==
    /\ HasAllHeaderWords(a)
    /\ HeaderLoop(a.data, MagicOf(a).value, 1,
                  <<[id |-> Id0000, val |-> MagicOf(a).value]>>, MinusOne).kind = "ok"

PayloadLen(a) == Len(a.data) - (MagicOf(a).value.num_headers + 1)

\* C9: with no expected length supplied no payload-length check is performed
\* (the outcome is that of the length-field check alone: a packet or
\* LengthFieldMismatch, never PayloadLengthMismatch); with one supplied, a call
\* that has passed the header steps fails with PayloadLengthMismatch exactly
\* when the number of payload words differs from it.
C9_OptionalPayloadLength ==
    (op = "from_data" /\ HeaderStepsPass(args)) =>
        IF args.expected_length = None
        THEN result.kind = "ok" \/ Failed("LengthFieldMismatch")
        ELSE Failed("PayloadLengthMismatch") <=> PayloadLen(args) # args.expected_length[1]

PacketLengthInvariant(pkt) ==
    HeaderValues(pkt, Id0004) = {BigOf(8 * Len(pkt.data))}

NoLengthHeader(a) ==
    \A i \in 1..MagicOf(a).value.num_headers :
        ItemOf(a, i).kind = "ok" => ItemOf(a, i).value.hdr_id # Id0004

\* C10: every packet returned by from_data has header id 0x0004 with len(payload) * 8 equal to its value; a word
\* sequence none of whose header words decodes to id 0x0004 is not accepted.
C10_LengthHeaderPresent ==
    /\ (op = "from_data" /\ result.kind = "ok") => PacketLengthInvariant(result.value)
    /\ (op = "from_data" /\ HasAllHeaderWords(args) /\ NoLengthHeader(args))
            => result.kind = "error"

C10_Witness ==
    /\ op = "from_data"
    /\ result.kind = "ok"
    /\ Len(result.value.data) = 2
    /\ Len(result.value.headers) = 3

\* ---------------------------------------------- claim on find_spead_header
IsWantedMagic(w, ver, flav) ==
    /\ w[1] = 83
    /\ ReservedOf(w) = 0
    /\ w[2] = ver
    /\ IsFlavourOf(flav, (8 * w[3]) + (8 * w[4]), 8 * w[4])

WantedAt(a) ==
    {i \in 1..Len(a.data64) :
        IsWantedMagic(a.data64[i], a.expected_version, a.expected_flavour)}

MinOf(S) == CHOOSE x \in S : \A y \in S : x <= y

\* C8: find_spead_header returns None when no word of data64 is a magic word of
\* the expected version and flavour, and otherwise the index and the decoded
\* header of the first such word, whatever words precede it.
C8_FindFirstHeader ==
    op = "find_spead_header" =>
        IF WantedAt(args) = {}
        THEN result.kind = "none"
        ELSE /\ result.kind = "ok"
             /\ result.value.index = MinOf(WantedAt(args)) - 1
             /\ result.value.decoded.version = args.expected_version
             /\ result.value.decoded.flavour = args.expected_flavour

\* ------------------------------------------------- claim on process_data
Assemble(seq) ==
    from_data(seq, version, flavour, expected_num_headers, expected_packet_length)

FailingAt(seqs) == {i \in 1..Len(seqs) : Assemble(seqs[i]).kind = "error"}

AssembledPrefix(seqs, n) == [i \in 1..n |-> Assemble(seqs[i]).value]

ProcessDataStep ==
    LET seqs == args'.data_packets
    IN  /\ IF FailingAt(seqs) = {}
           THEN /\ packets' = packets \o AssembledPrefix(seqs, Len(seqs))
                /\ result'.kind = "ok"
           ELSE /\ packets' = packets \o AssembledPrefix(seqs, MinOf(FailingAt(seqs)) - 1)
                /\ result' = Assemble(seqs[MinOf(FailingAt(seqs))])
        /\ UNCHANGED <<version, flavour, expected_num_headers, expected_packet_length>>

\* C4: process_data(seqs) appends to the packet list, in input order, the
\* packets of the sequences before the first one whose assembly fails (all of
\* them if none fails) and raises that first failure; the list is otherwise
\* unchanged and the configuration never changes.
C4_FailFastAppendOnly == [][ProcessDataStep]_vars

C4_Witness ==
    /\ op = "process_data"
    /\ Len(args.data_packets) = 2
    /\ Assemble(args.data_packets[1]).kind = "ok"
    /\ result.kind = "error"
    /\ Len(packets) = 2
    /\ packets[1] # packets[2]

====
